---- MODULE Spec2Model ----
(***************************************************************************)
(* A model of weather_helpers/util.py of the OVOS weather skill: the       *)
(* location-resolution pipeline (_get_geolocation, get_reverse_geolocation,*)
(* get_geolocation), the timed_lru_cache decorator that wraps the first    *)
(* two, the timezone helper and get_time_period.                           *)
(*                                                                         *)
(* Python values.  A JSON object is a TLA+ record that carries every key   *)
(* the code reads; a key that is absent (or null) holds None, which is     *)
(* what dict.get returns for it.  Strings are TLA+ strings, "" is the      *)
(* empty string.  `a or b` is Or(a, b): a when a is truthy, else b.        *)
(***************************************************************************)
EXTENDS Bags, FiniteSets, Integers, Naturals, Sequences, TLC

None == "<None>"

Truthy(v) == v # None /\ v # ""

Or(a, b) == IF Truthy(a) THEN a ELSE b

(***************************************************************************)
(* str.upper() on the strings the model feeds it.                          *)
(***************************************************************************)
upper(s) ==
    CASE s = "pt" -> "PT"
      [] s = "br" -> "BR"
      [] s = "de" -> "DE"
      [] s = "r"  -> "R"
      [] s = "w"  -> "W"
      [] s = "n"  -> "N"
      [] OTHER    -> s

(***************************************************************************)
(* data['osm_type'][0]: the first character of the OSM object type.        *)
(***************************************************************************)
first_char(s) ==
    CASE s = "relation" -> "r"
      [] s = "way"      -> "w"
      [] s = "node"     -> "n"
      [] OTHER          -> s

(***************************************************************************)
(* get_time_period (util.py 255-275).  A datetime is a record; only its    *)
(* hour is read.                                                           *)
(***************************************************************************)
\* faulty variant: hour 5 still counts as early morning
get_time_period_late(intent_datetime) ==
    LET hour == intent_datetime.hour IN
    IF 1 <= hour /\ hour <= 5 THEN "early morning"
    ELSE IF 5 <= hour /\ hour < 12 THEN "morning"
    ELSE IF 12 <= hour /\ hour < 17 THEN "afternoon"
    ELSE IF 17 <= hour /\ hour < 20 THEN "evening"
    ELSE "overnight"

get_time_period(intent_datetime) ==
    LET hour == intent_datetime.hour IN
    IF 1 <= hour /\ hour < 5 THEN "early morning"
    ELSE IF 5 <= hour /\ hour < 12 THEN "morning"
    ELSE IF 12 <= hour /\ hour < 17 THEN "afternoon"
    ELSE IF 17 <= hour /\ hour < 20 THEN "evening"
    ELSE "overnight"

(***************************************************************************)
(* The environment fixed at import time: whether timezonefinder could be   *)
(* imported, and the device configuration (location.coordinate and         *)
(* location.timezone; has_tz tells whether the latter is configured).      *)
(***************************************************************************)
NoCoordinate == [latitude |-> None, longitude |-> None]

Env(t, c, z) ==
    [TimezoneFinder |-> t, coordinate |-> c, has_tz |-> z,
     timezone |-> [name |-> "America Chicago", code |-> "America/Chicago"]]

Envs ==
    {Env(TRUE, [latitude |-> "39.0", longitude |-> "-94.5"], TRUE),
     Env(TRUE, NoCoordinate, FALSE),
     Env(FALSE, NoCoordinate, FALSE)}

(***************************************************************************)
(* TimezoneFinder().timezone_at and tz.replace("/", " ") on the            *)
(* coordinates and zones of the model.                                     *)
(***************************************************************************)
timezone_at(lng, lat) ==
    IF lat = "39.0" THEN "America/Chicago" ELSE "Europe/Lisbon"

replace_slash(tz) ==
    CASE tz = "America/Chicago" -> "America Chicago"
      [] tz = "Europe/Lisbon"   -> "Europe Lisbon"
      [] OTHER                  -> tz

(***************************************************************************)
(* _get_lat_lon (util.py 143-150), called with lat= and lon= keywords.     *)
(***************************************************************************)
_get_lat_lon(e, lat, lon) ==
    IF ~Truthy(lat) \/ ~Truthy(lon)
    THEN <<e.coordinate.latitude, e.coordinate.longitude>>
    ELSE <<lat, lon>>

(***************************************************************************)
(* _get_timezone (util.py 153-163).  float(None) raises TypeError when     *)
(* neither the arguments nor the configuration give a coordinate.          *)
(***************************************************************************)
timezone_of(tz) == [name |-> replace_slash(tz), code |-> tz]

timezone_found(ll) ==
    IF ll[1] = None \/ ll[2] = None
    THEN [raises |-> "TypeError", tz |-> [name |-> None, code |-> None]]
    ELSE [raises |-> None, tz |-> timezone_of(timezone_at(ll[2], ll[1]))]

_get_timezone(e, lat, lon) ==
    IF e.TimezoneFinder
    THEN timezone_found(_get_lat_lon(e, lat, lon))
    ELSE [raises |-> None,
          tz |-> IF e.has_tz THEN e.timezone
                 ELSE [name |-> "UTC", code |-> "UTC"]]

(***************************************************************************)
(* The body of get_reverse_geolocation after the request (util.py          *)
(* 107-140): the reverse response `details` normalised to a location.      *)
(***************************************************************************)
reverse_country_code(address) ==
    Or(upper(IF address.country_code = None THEN "" ELSE address.country_code),
       "")

\* faulty variant: town before village
reverse_city_name_town_first(address) ==
    Or(address.city,
       Or(address.town,
          Or(address.village,
             Or(address.hamlet,
                Or(address.county, "")))))

reverse_city_name(address) ==
    Or(address.city,
       Or(address.village,
          Or(address.town,
             Or(address.hamlet,
                Or(address.county, "")))))

reverse_state_name(address) == Or(address.state, Or(address.county, ""))

reverse_coordinate(details, lat, lon) ==
    [latitude |-> Or(details.lat, lat), longitude |-> Or(details.lon, lon)]

reverse_record(details, address, lat, lon, tz) ==
    [raises |-> tz.raises,
     location |->
       [address |-> details.display_name,
        city |->
          [code |-> Or(address.postcode, ""),
           name |-> reverse_city_name(address),
           state |->
             [code |-> Or(address.state_code,
                          Or(address.lvl4, Or(address.lvl6, ""))),
              name |-> reverse_state_name(address),
              country |->
                [code |-> reverse_country_code(address),
                 name |-> Or(address.country, "")]]],
        coordinate |-> reverse_coordinate(details, lat, lon),
        timezone |-> tz.tz]]

reverse_location(e, details, lat, lon) ==
    reverse_record(details, details.address, lat, lon,
                   _get_timezone(e, Or(details.lat, lat),
                                 Or(details.lon, lon)))

(***************************************************************************)
(* The details fallback of _get_geolocation (util.py 58-90): the forward   *)
(* match `data` and the details response normalised to a location.         *)
(* addresstags is a record, or None when the upstream sends an empty list  *)
(* (or nothing): `details.get("addresstags") or {}`.                       *)
(***************************************************************************)
NoTags == [country |-> None, state |-> None, postcode |-> None,
           state_code |-> None]

details_tags(details) ==
    IF details.has_addresstags THEN details.addresstags ELSE NoTags

\* faulty variant: category before linked_place
details_place_type_category_first(data, details) ==
    Or(details.category,
       Or(details.extratags.linked_place,
          Or(data.type, data.class)))

details_place_type(data, details) ==
    Or(details.extratags.linked_place,
       Or(details.category,
          Or(data.type, data.class)))

details_name(data, details) ==
    Or(details.localname,
       Or(details.names.name,
          Or(details.names.official_name, data.display_name)))

\* faulty variant: the ISO tag before the address tags
details_cc_alpha2_first(details) ==
    Or(details.country_code,
       Or(details.extratags.alpha2,
          Or(details_tags(details).country, "")))

details_cc(details) ==
    Or(details.country_code,
       Or(details_tags(details).country,
          Or(details.extratags.alpha2, "")))

details_record(data, details, tags, place_type, name, cc, tz) ==
    [raises |-> tz.raises,
     location |->
       [address |-> data.display_name,
        city |->
          [code |-> Or(tags.postcode, Or(details.calculated_postcode, "")),
           name |-> IF place_type = "city" THEN name ELSE "",
           state |->
             [code |-> Or(tags.state_code,
                          Or(details.calculated_postcode, "")),
              name |-> IF place_type = "state" THEN name ELSE tags.state,
              country |->
                [code |-> upper(cc),
                 name |-> IF place_type = "country" THEN name ELSE ""]]],
        coordinate |-> [latitude |-> data.lat, longitude |-> data.lon],
        timezone |-> tz.tz]]

details_location(e, data, details) ==
    details_record(data, details, details_tags(details),
                   details_place_type(data, details),
                   details_name(data, details), details_cc(details),
                   _get_timezone(e, data.lat, data.lon))

(***************************************************************************)
(* Bounds of the model: the clock stops at MaxClock.                       *)
(***************************************************************************)
MaxClock == 1200

(***************************************************************************)
(* timed_lru_cache(seconds=600) (util.py 33 and 93; ovos_utils): an        *)
(* lru_cache(maxsize=128) around the function, with ONE expiration time    *)
(* for the whole cache, set to now + 600 when the function is decorated.   *)
(* The wrapper holds no lock and runs four statements, between which       *)
(* another caller may run:                                                 *)
(*     if monotonic_ns() >= f.expiration:                                  *)
(*         f.cache_clear()                                                 *)
(*         f.expiration = monotonic_ns() + f.delta                         *)
(*     return f(args)                                                      *)
(*                                                                         *)
(* A cache is [cache, order, expiration, inserted, fetched]: the cached    *)
(* values by key, the keys from least to most recently used, the           *)
(* expiration time, and two history fields the program does not hold: the  *)
(* time each entry was inserted and the time of the upstream fetch its     *)
(* value was built from.                                                   *)
(***************************************************************************)
seconds == 600

maxsize == 128

EmptyMap == [k \in {} |-> None]

NewCache(t) ==
    [cache |-> EmptyMap, order |-> <<>>, expiration |-> t + seconds,
     inserted |-> EmptyMap, fetched |-> EmptyMap]

Without(f, k) == [x \in DOMAIN f \ {k} |-> f[x]]

Put(f, k, v) == [x \in DOMAIN f \cup {k} |-> IF x = k THEN v ELSE f[x]]

Remove(s, k) == SelectSeq(s, LAMBDA x : x # k)

\* `if monotonic_ns() >= f.expiration`
expired(c, t) == t >= c.expiration

\* `f.cache_clear()`: every entry goes, the expiration stays
cache_clear(c) == [NewCache(0) EXCEPT !.expiration = c.expiration]

\* `f.expiration = monotonic_ns() + f.delta`
cache_arm(c, t) == [c EXCEPT !.expiration = t + seconds]

\* lru_cache on a hit: the entry becomes the most recently used
cache_hit(c, k) == [c EXCEPT !.order = Append(Remove(c.order, k), k)]

\* lru_cache on a miss, after the function returned v: the least recently
\* used entry makes room when the cache is full
cache_evict(c, old) ==
    [c EXCEPT !.cache = Without(c.cache, old), !.order = Tail(c.order),
              !.inserted = Without(c.inserted, old),
              !.fetched = Without(c.fetched, old)]

cache_make_room(c) ==
    IF Len(c.order) >= maxsize THEN cache_evict(c, c.order[1]) ELSE c

cache_store(c, k, v, t, tf) ==
    [c EXCEPT !.cache = Put(c.cache, k, v), !.order = Append(c.order, k),
              !.inserted = Put(c.inserted, k, t),
              !.fetched = Put(c.fetched, k, tf)]

\* ... unless the key is there already: another call stored it while the
\* function ran, and its entry stays
cache_insert(c, k, v, t, tf) ==
    IF k \in DOMAIN c.cache THEN c
    ELSE cache_store(cache_make_room(c), k, v, t, tf)

(***************************************************************************)
(* What the upstream may answer.  An answer is [error, json]: error says   *)
(* the request raised (no connection, malformed JSON).                     *)
(***************************************************************************)
Texts == {"porto", "lisboa"}

Match(lat, lon, id, type) ==
    [lat |-> lat, lon |-> lon, osm_id |-> id, osm_type |-> type,
     display_name |-> "Porto, Portugal", type |-> "administrative",
     class |-> "boundary"]

MatchCoord == Match("38.7", "-9.1", 1, "relation")

MatchNoCoord == Match(None, None, 2, "way")

MatchNoLon == Match("38.7", "", 3, "node")

FwdError == [error |-> TRUE, json |-> <<>>]

\* the search finds "porto" with its coordinate and "lisboa" without one
MatchesOf(location) ==
    IF location = "porto" THEN {MatchCoord} ELSE {MatchNoLon}

FwdResponses(location) ==
    {FwdError, [error |-> FALSE, json |-> <<>>]}
        \cup {[error |-> FALSE, json |-> <<m>>] : m \in MatchesOf(location)}

\* the answers a search, then a reverse or a details request may get
Found(fr) == ~fr.error /\ fr.json # <<>>

Address(city, village, town, hamlet, county, state) ==
    [city |-> city, village |-> village, town |-> town, hamlet |-> hamlet,
     county |-> county, state |-> state, postcode |-> "4000-001",
     state_code |-> None, lvl4 |-> "PT-13", lvl6 |-> None,
     country_code |-> "pt", country |-> "Portugal"]

Reverse(lat, lon, address) ==
    [error |-> FALSE,
     json |-> [lat |-> lat, lon |-> lon, display_name |-> "Porto, Portugal",
               address |-> address]]

RevError ==
    [error |-> TRUE,
     json |-> [lat |-> None, lon |-> None, display_name |-> None,
               address |-> Address(None, None, None, None, None, None)]]

RevResponses ==
    {RevError,
     Reverse(None, "-9.11", Address(None, None, None, None, "Grande Porto", ""))}

Details(linked_place, category, localname, country_code, has_tags, tags) ==
    [error |-> FALSE,
     json |-> [extratags |-> [linked_place |-> linked_place, alpha2 |-> "DE"],
               category |-> category, localname |-> localname,
               names |-> [name |-> "Porto", official_name |-> None],
               country_code |-> country_code, calculated_postcode |-> None,
               has_addresstags |-> has_tags, addresstags |-> tags]]

DetError ==
    [error |-> TRUE,
     json |-> Details(None, None, None, None, FALSE, NoTags).json]

DetResponses ==
    {DetError,
     Details("city", "boundary", "Porto", "pt", TRUE,
             [NoTags EXCEPT !.country = "br", !.state = "Norte"])}

Coords == {<<"38.7", "-9.1">>}

(***************************************************************************)
(* What a call leaves behind: the requests it sent and the stages it       *)
(* entered, in order.                                                      *)
(***************************************************************************)
GET(url, params) == [ev |-> "GET", url |-> url, params |-> params]

Enter(fn, args) == [ev |-> "call", fn |-> fn, args |-> args]

\* what stands for the value of a call that raised
NoLocation ==
    [address |-> None,
     city |-> [code |-> None, name |-> None,
               state |-> [code |-> None, name |-> None,
                          country |-> [code |-> None, name |-> None]]],
     coordinate |-> NoCoordinate,
     timezone |-> [name |-> None, code |-> None]]

(***************************************************************************)
(* How a function ends: it raises, or it returns a value.                  *)
(***************************************************************************)
Raise(exc) == [raises |-> exc, is_none |-> FALSE, value |-> NoLocation]

Return(value) == [raises |-> None, is_none |-> FALSE, value |-> value]

\* the requests (util.py 45-46, 53-56, 105-106)
reverse_request(lat, lon) ==
    GET("reverse", [lat |-> lat, lon |-> lon, format |-> "json"])

search_request(location) ==
    GET("search", [q |-> location, format |-> "json", limit |-> 1])

details_request(data) ==
    GET("details.php", [osmid |-> data.osm_id,
                        osmtype |-> upper(first_char(data.osm_type)),
                        format |-> "json"])

\* `if lat and lon:` (util.py 50)
\* faulty variant: one of lat and lon is enough
usable_coordinate_either(data) == Truthy(data.lat) \/ Truthy(data.lon)

usable_coordinate(data) == Truthy(data.lat) /\ Truthy(data.lon)

(***************************************************************************)
(* get_geolocation (util.py 226-252): LocationNotFoundError when           *)
(* _get_geolocation returns None, else the flattened result.               *)
(***************************************************************************)
simplify(geolocation) ==
    [city |-> geolocation.city.name,
     region |-> geolocation.city.state.name,
     country |-> geolocation.city.state.country.name,
     latitude |-> geolocation.coordinate.latitude,
     longitude |-> geolocation.coordinate.longitude,
     timezone |-> geolocation.timezone.code]

none_is_unknown(geolocation) ==
    IF geolocation.raises # None THEN geolocation
    ELSE IF geolocation.is_none
    THEN [geolocation EXCEPT !.raises = "LocationNotFoundError"]
    ELSE geolocation

(***************************************************************************)
(* The state.  A call is not one instant.  The wrapper tests the           *)
(* expiration when the call starts, clears the cache, sets the new         *)
(* expiration and looks the key up, one statement at a time; the function  *)
(* then blocks on its requests, one after the other, and the lru_cache     *)
(* stores the value when the function returns.  Another caller may run     *)
(* between any two of these steps, and the clock may advance between any  *)
(* two of them as well as while a caller waits for an answer.              *)
(*                                                                         *)
(* calls is the bag of the calls in flight, one per busy caller: the       *)
(* function called and its arguments, the statement or the request it is   *)
(* at (pc), the match the search gave, what it sent and entered so far,    *)
(* and, while it is in the wrapper, what it saw when it started (history). *)
(*                                                                         *)
(* last, succ and probe are history.  last says what the step just taken   *)
(* did when it looked a key up or ended a call, and is NoCall after any    *)
(* other step.  succ says when get_geolocation last succeeded for the text *)
(* Tracked and the record it returned.  probe holds the input and the      *)
(* output of a helper applied on its own.                                  *)
(***************************************************************************)
VARIABLES now, env, fwd, rev, calls, succ, last, probe

vars == <<now, env, fwd, rev, calls, succ, last, probe>>

Never == 0 - 1

Tracked == "lisboa"

\* the callers that may be busy at the same time
Threads == {"first", "second"}

NoMatch == Match(None, None, 0, None)

Call(fn, args, pc, data, events, seen) ==
    [fn |-> fn, args |-> args, pc |-> pc, data |-> data, events |-> events,
     seen |-> seen]

NoSuccess == [at |-> Never, returned |-> NoLocation]

NoCall ==
    [fn |-> "none", args |-> <<>>, phase |-> "none", at |-> 0,
     raises |-> None, location |-> NoLocation,
     result |-> simplify(NoLocation), events |-> <<>>, hit |-> FALSE,
     answer |-> FwdError, cached |-> FALSE, inserted |-> Never,
     stored |-> Never, fetched |-> Never, done |-> Never,
     expiration |-> seconds, expires |-> seconds,
     succ |-> NoSuccess]

NoProbe == [fn |-> "none"]

\* after import: timezonefinder was imported or not, both caches are
\* created, no call was made
Init ==
    /\ now = 0
    /\ env \in Envs
    /\ fwd = NewCache(0)
    /\ rev = NewCache(0)
    /\ calls = EmptyBag
    /\ succ = NoSuccess
    /\ last = NoCall
    /\ probe = NoProbe

\* the instants the clock is read at: the first expiration and the ones
\* 600 s apart after it
Instants == {0, 600, 1200, 1800}

\* The clock moves at any moment: while a caller waits for an answer and
\* between any two statements of a wrapper (monotonic_ns is read once by the
\* expiry test and once more for the new expiration).
Tick ==
    \E t \in Instants :
        /\ t > now
        /\ t <= MaxClock
        /\ now' = t
        /\ last' = NoCall
        /\ UNCHANGED <<env, fwd, rev, calls, succ, probe>>

Idle == BagCardinality(calls) < Cardinality(Threads)

Began(call) == calls' = calls (+) SetToBag({call})

Moved(call, next) ==
    calls' = (calls (-) SetToBag({call})) (+) SetToBag({next})

\* the cache whose wrapper or function a call is in: the reverse cache once
\* _get_geolocation has its match
InReverse(call) ==
    call.fn = "get_reverse_geolocation" \/ call.data # NoMatch

CoordinateOf(call) ==
    IF call.fn = "get_reverse_geolocation" THEN call.args
    ELSE <<call.data.lat, call.data.lon>>

AnswerOf(call) ==
    IF call.fn = "get_reverse_geolocation" THEN FwdError
    ELSE [error |-> FALSE, json |-> <<call.data>>]

\* `if monotonic_ns() >= f.expiration`: the statement the call goes to
Tested(c) == IF expired(c, now) THEN "clear" ELSE "lookup"

\* what a call saw of cache c when it started
Seen(fn, args, key, c, s) ==
    [NoCall EXCEPT
       !.fn = fn, !.args = args, !.at = now,
       !.cached = key \in DOMAIN c.cache,
       !.inserted = IF key \in DOMAIN c.cache THEN c.inserted[key] ELSE Never,
       !.succ = s]

\* the lookup found the key in cache c, in an entry stored at ti and fetched
\* at tf, and left cache d
Hit(seen, value, ti, tf, c, d) ==
    [seen EXCEPT !.phase = "returned", !.hit = TRUE, !.location = value,
                 !.result = simplify(value), !.stored = ti, !.fetched = tf,
                 !.done = now,
                 !.expiration = c.expiration, !.expires = d.expiration]

Missed(seen, request) ==
    [seen EXCEPT !.phase = "started", !.events = <<request>>]

\* the call ends as g says; fc is the forward cache it leaves and tf the
\* time of the upstream fetch its value was built from
Ended(call, events, answer, g, tf, fc) ==
    /\ calls' = calls (-) SetToBag({call})
    /\ last' = [NoCall EXCEPT
                  !.fn = call.fn, !.args = call.args,
                  !.phase = IF g.raises = None THEN "returned" ELSE "raised",
                  !.at = now, !.done = now, !.raises = g.raises,
                  !.location = g.value,
                  !.result = simplify(g.value), !.events = events,
                  !.answer = answer, !.fetched = tf,
                  !.expiration = fc.expiration, !.expires = fc.expiration]
    /\ succ' = IF /\ g.raises = None
                  /\ call.fn = "get_geolocation"
                  /\ call.args = <<Tracked>>
               THEN [at |-> now, returned |-> g.value]
               ELSE succ

Failed(call, answer, exc) ==
    /\ fwd' = fwd
    /\ Ended(call, call.events, answer,
             IF call.fn = "get_geolocation" THEN none_is_unknown(Raise(exc))
             ELSE Raise(exc),
             Never, fwd)

(***************************************************************************)
(* get_geolocation(location) is called (util.py 226-240) and calls         *)
(* _get_geolocation (util.py 33): its wrapper tests the expiration of the  *)
(* forward cache.  get_reverse_geolocation(lat, lon) is called by a caller *)
(* (util.py 93): its wrapper tests the expiration of the reverse cache.    *)
(***************************************************************************)
CallGetGeolocation ==
    \E location \in Texts :
        /\ Idle
        /\ Began(Call("get_geolocation", <<location>>, Tested(fwd), NoMatch,
                      <<>>,
                      Seen("get_geolocation", <<location>>, location, fwd,
                           IF location = Tracked THEN succ ELSE NoSuccess)))
        /\ last' = NoCall
        /\ UNCHANGED <<now, env, fwd, rev, succ, probe>>

CallGetReverseGeolocation ==
    \E key \in Coords :
        /\ Idle
        /\ Began(Call("get_reverse_geolocation", key, Tested(rev), NoMatch,
                      <<>>,
                      NoCall))
        /\ last' = NoCall
        /\ UNCHANGED <<now, env, fwd, rev, succ, probe>>

(***************************************************************************)
(* The wrapper of a call that found the cache expired clears it, then sets *)
(* the new expiration.                                                     *)
(***************************************************************************)
CacheCleared ==
    \E call \in BagToSet(calls) :
        /\ call.pc = "clear"
        /\ IF InReverse(call)
           THEN rev' = cache_clear(rev) /\ fwd' = fwd
           ELSE fwd' = cache_clear(fwd) /\ rev' = rev
        /\ Moved(call, [call EXCEPT !.pc = "arm"])
        /\ last' = NoCall
        /\ UNCHANGED <<now, env, succ, probe>>

ExpirationSet ==
    \E call \in BagToSet(calls) :
        /\ call.pc = "arm"
        /\ IF InReverse(call)
           THEN rev' = cache_arm(rev, now) /\ fwd' = fwd
           ELSE fwd' = cache_arm(fwd, now) /\ rev' = rev
        /\ Moved(call, [call EXCEPT !.pc = "lookup"])
        /\ last' = NoCall
        /\ UNCHANGED <<now, env, succ, probe>>

(***************************************************************************)
(* _get_geolocation returns value (util.py 51, 90): the lru_cache stores   *)
(* it under the text, unless another call stored one meanwhile, and        *)
(* get_geolocation returns (util.py 241-252).                              *)
(***************************************************************************)
geolocation_stored(call, data, events, value, tf, fc) ==
    /\ fwd' = fc
    /\ Ended(call, events, [error |-> FALSE, json |-> <<data>>],
             none_is_unknown(Return(value)), tf, fc)

geolocation_returned(call, data, events, value, tf) ==
    geolocation_stored(call, data, events, value, tf,
                       cache_insert(fwd, call.args[1], value, now, tf))

(***************************************************************************)
(* The wrapper calls the lru_cache, which looks the key up: on a hit the   *)
(* call returns the entry, to its caller or to _get_geolocation; on a miss *)
(* the function runs and its first request leaves (util.py 45-46,          *)
(* 105-106).                                                               *)
(***************************************************************************)
geolocation_looked_up(call, location, d) ==
    IF location \in DOMAIN fwd.cache
    THEN /\ fwd' = d
         /\ calls' = calls (-) SetToBag({call})
         /\ last' = Hit(call.seen, fwd.cache[location],
                        fwd.inserted[location], fwd.fetched[location], fwd, d)
         /\ succ' = IF location = Tracked
                    THEN [at |-> now, returned |-> fwd.cache[location]]
                    ELSE succ
    ELSE /\ fwd' = fwd
         /\ Moved(call, Call(call.fn, call.args, "search", NoMatch,
                             <<search_request(location)>>, NoCall))
         /\ last' = Missed(call.seen, search_request(location))
         /\ succ' = succ

reverse_looked_up(call, key, d) ==
    IF key \in DOMAIN rev.cache
    THEN /\ rev' = d
         /\ IF call.fn = "get_geolocation"
            THEN geolocation_returned(call, call.data, call.events,
                                      rev.cache[key], rev.fetched[key])
            ELSE /\ fwd' = fwd
                 /\ calls' = calls (-) SetToBag({call})
                 /\ last' = Hit(Seen(call.fn, key, key, rev, NoSuccess),
                                rev.cache[key], rev.inserted[key],
                                rev.fetched[key], rev, d)
                 /\ succ' = succ
    ELSE /\ rev' = rev
         /\ fwd' = fwd
         /\ Moved(call, Call(call.fn, call.args, "reverse", call.data,
                             call.events \o
                               <<reverse_request(key[1], key[2])>>, NoCall))
         /\ last' = IF call.fn = "get_geolocation" THEN NoCall
                    ELSE Missed(Seen(call.fn, key, key, rev, NoSuccess),
                                reverse_request(key[1], key[2]))
         /\ succ' = succ

LookedUp ==
    \E call \in BagToSet(calls) :
        /\ call.pc = "lookup"
        /\ IF InReverse(call)
           THEN reverse_looked_up(call, CoordinateOf(call),
                                  cache_hit(rev, CoordinateOf(call)))
           ELSE /\ rev' = rev
                /\ geolocation_looked_up(call, call.args[1],
                                         cache_hit(fwd, call.args[1]))
        /\ UNCHANGED <<now, env, probe>>

(***************************************************************************)
(* The search request of a call is answered (util.py 45-56).  `.json()[0]` *)
(* raises IndexError on an empty list.  With a usable coordinate           *)
(* get_reverse_geolocation is called and its wrapper tests the expiration  *)
(* of the reverse cache, now.  Without one the details request leaves.     *)
(***************************************************************************)
reverse_entered(call, data, key) ==
    /\ Moved(call, Call(call.fn, call.args, Tested(rev), data,
                        call.events \o
                          <<Enter("get_reverse_geolocation", key)>>, NoCall))
    /\ last' = NoCall
    /\ UNCHANGED <<fwd, succ>>

details_requested(call, data) ==
    /\ Moved(call, Call(call.fn, call.args, "details", data,
                        call.events \o <<details_request(data)>>, NoCall))
    /\ last' = NoCall
    /\ UNCHANGED <<fwd, succ>>

search_answered(call, fr) ==
    IF fr.error
    THEN Failed(call, fr, "RequestException")
    ELSE IF fr.json = <<>>
    THEN Failed(call, fr, "IndexError")
    ELSE IF usable_coordinate(fr.json[1])
    THEN reverse_entered(call, fr.json[1],
                         <<fr.json[1].lat, fr.json[1].lon>>)
    ELSE details_requested(call, fr.json[1])

SearchAnswered ==
    \E call \in BagToSet(calls) :
        /\ call.pc = "search"
        /\ \E fr \in FwdResponses(call.args[1]) : search_answered(call, fr)
        /\ UNCHANGED <<now, env, rev, probe>>

(***************************************************************************)
(* The details request of a call is answered (util.py 54-90).              *)
(***************************************************************************)
details_built(call, loc) ==
    IF loc.raises # None
    THEN Failed(call, AnswerOf(call), loc.raises)
    ELSE geolocation_returned(call, call.data, call.events, loc.location, now)

details_answered(call, dr) ==
    IF dr.error
    THEN Failed(call, AnswerOf(call), "RequestException")
    ELSE details_built(call, details_location(env, call.data, dr.json))

DetailsAnswered ==
    \E call \in BagToSet(calls) :
        /\ call.pc = "details"
        /\ \E dr \in DetResponses : details_answered(call, dr)
        /\ UNCHANGED <<now, env, rev, probe>>

(***************************************************************************)
(* The reverse request of a call is answered (util.py 105-140): the        *)
(* lru_cache stores the value under the coordinate, unless another call    *)
(* stored one meanwhile; the call returns its own value, to its caller or  *)
(* to _get_geolocation.                                                    *)
(***************************************************************************)
reverse_built(call, key, loc) ==
    IF loc.raises # None
    THEN rev' = rev /\ Failed(call, AnswerOf(call), loc.raises)
    ELSE /\ rev' = cache_insert(rev, key, loc.location, now, now)
         /\ IF call.fn = "get_geolocation"
            THEN geolocation_returned(call, call.data, call.events,
                                      loc.location, now)
            ELSE /\ fwd' = fwd
                 /\ Ended(call, call.events, FwdError, Return(loc.location),
                          now, fwd)

reverse_answered(call, key, rr) ==
    IF rr.error
    THEN rev' = rev /\ Failed(call, AnswerOf(call), "RequestException")
    ELSE reverse_built(call, key,
                       reverse_location(env, rr.json, key[1], key[2]))

ReverseAnswered ==
    \E call \in BagToSet(calls) :
        /\ call.pc = "reverse"
        /\ \E rr \in RevResponses :
               reverse_answered(call, CoordinateOf(call), rr)
        /\ UNCHANGED <<now, env, probe>>

Next ==
    \/ Tick
    \/ CallGetGeolocation
    \/ CallGetReverseGeolocation
    \/ CacheCleared
    \/ ExpirationSet
    \/ LookedUp
    \/ SearchAnswered
    \/ DetailsAnswered
    \/ ReverseAnswered

Spec == Init /\ [][Next]_vars

(***************************************************************************)
(* Properties of the resolution pipeline and its two caches.               *)
(***************************************************************************)
IsResolve == last.fn = "get_geolocation"

\* the last thing that happened is that a call of get_geolocation returned
Resolves == IsResolve /\ last.phase = "returned"

\* ... or that it ended, one way or the other, after its search
Searched == IsResolve /\ last.phase \in {"returned", "raised"} /\ ~last.hit

EmptyAnswer == [error |-> FALSE, json |-> <<>>]

Requests(events) == SelectSeq(events, LAMBDA x : x.ev = "GET")

Entered(events) == SelectSeq(events, LAMBDA x : x.ev = "call")

\* C1: when the forward search returns an empty list, get_geolocation fails
\* with LocationNotFoundError and with no other kind of error.
C1_EmptyRaisesLocationNotFound ==
    (Searched /\ last.answer = EmptyAnswer)
        => last.raises = "LocationNotFoundError"

\* C2: once a call for a text succeeded at t0, every later call for
\* it at a time t with t - t0 < 600 returns the same record and sends no
\* request.
C2_FreshWithinTtlOfSuccess ==
    (IsResolve /\ last.succ.at # Never /\ last.at - last.succ.at < seconds)
        => /\ last.hit
           /\ last.events = <<>>
           /\ last.location = last.succ.returned

\* C3: a call for a text made 600 seconds or more after its cache
\* entry was inserted does not return the entry but sends a fresh forward
\* search, and a read of an entry leaves the expiration time as it was.
C3_ExpiredEntryIsRefetched ==
    /\ (IsResolve /\ last.cached /\ last.at - last.inserted >= seconds)
          => /\ ~last.hit
             /\ last.phase = "started"
             /\ last.events =
                  <<GET("search", [q |-> last.args[1], format |-> "json",
                                   limit |-> 1])>>
    /\ (IsResolve /\ last.hit) => last.expires = last.expiration

\* C4: an uncached resolution whose search finds a match sends the search
\* first, then enters exactly one second stage: reverse geocoding with the
\* match's (lat, lon) and no details request when both are non-empty, else a
\* details request for the match's osm_id and osm_type and no reverse
\* geocoding; at most two requests are sent.
OsmTypeLetter(type) ==
    [relation |-> "R", way |-> "W", node |-> "N"][type]

C4_OneSecondStage ==
    (Searched /\ Found(last.answer)) =>
        LET m  == last.answer.json[1]
            ev == last.events
            coordinate == m.lat \notin {None, ""} /\ m.lon \notin {None, ""}
        IN /\ Len(ev) >= 2
           /\ ev[1] = GET("search", [q |-> last.args[1], format |-> "json",
                                     limit |-> 1])
           /\ Len(Requests(ev)) <= 2
           /\ coordinate =>
                /\ ev[2] = Enter("get_reverse_geolocation", <<m.lat, m.lon>>)
                /\ Len(Entered(ev)) = 1
                /\ \A i \in DOMAIN ev : ev[i].ev = "GET" =>
                       ev[i].url # "details.php"
           /\ ~coordinate =>
                /\ ev[2] = GET("details.php",
                               [osmid |-> m.osm_id,
                                osmtype |-> OsmTypeLetter(m.osm_type),
                                format |-> "json"])
                /\ Len(ev) = 2
                /\ Entered(ev) = <<>>

C4_Witness ==
    /\ Searched
    /\ Found(last.answer)
    /\ last.answer.json[1].lat # None
    /\ last.answer.json[1].lon = ""
    /\ last.raises = None
    /\ Len(last.events) = 2

\* C5: every record a successful resolution returns has a latitude and a
\* longitude, so the result of get_geolocation has both.
C5_CoordinatePresent ==
    Resolves =>
        /\ Truthy(last.location.coordinate.latitude)
        /\ Truthy(last.location.coordinate.longitude)
        /\ Truthy(last.result.latitude)
        /\ Truthy(last.result.longitude)

\* C10: every record get_geolocation returns was built from an upstream
\* response fetched at most 600 seconds before the moment it is returned.
C10_AtMostOneTtlStale ==
    Resolves => last.done - last.fetched <= seconds


(***************************************************************************)
(* The helpers on their own: a behaviour draws one input and applies the   *)
(* function to it once.                                                    *)
(***************************************************************************)
InitWith(probes) ==
    /\ now = 0
    /\ env \in Envs
    /\ fwd = NewCache(0)
    /\ rev = NewCache(0)
    /\ calls = EmptyBag
    /\ succ = NoSuccess
    /\ last = NoCall
    /\ probe \in probes

\* get_time_period on a datetime
Datetimes ==
    [hour : 0 .. 23, minute : {0, 59}, day : {1, 31}, month : {1, 12}]

PeriodProbes ==
    {[fn |-> "get_time_period", done |-> FALSE, arg |-> d, out |-> None] :
        d \in Datetimes}

ApplyTimePeriod ==
    /\ probe.fn = "get_time_period"
    /\ ~probe.done
    /\ probe' = [probe EXCEPT !.done = TRUE,
                              !.out = get_time_period(probe.arg)]
    /\ UNCHANGED <<now, env, fwd, rev, calls, succ, last>>

SpecPeriod == InitWith(PeriodProbes) /\ [][ApplyTimePeriod]_vars

\* what get_reverse_geolocation builds from the answer to its request
\* (util.py 107-140), for each shape of the answer
FieldValues(v) == {None, "", v}

Addresses ==
    {Address(ci, vi, to, ha, co, st) :
        ci \in FieldValues("Cidade"), vi \in FieldValues("Aldeia"),
        to \in FieldValues("Vila"), ha \in FieldValues("Lugar"),
        co \in FieldValues("Concelho"), st \in FieldValues("Estado")}

ReverseProbes ==
    {[fn |-> "get_reverse_geolocation", done |-> FALSE,
      arg |-> [lat |-> "38.7", lon |-> "-9.1", answer |-> Reverse(la, lo, a)],
      raises |-> None, out |-> NoLocation] :
        la \in {None, "38.71"}, lo \in {None, "", "-9.11"}, a \in Addresses}

Reversed(loc) ==
    probe' = [probe EXCEPT !.done = TRUE, !.raises = loc.raises,
                           !.out = loc.location]

ApplyReverse ==
    /\ probe.fn = "get_reverse_geolocation"
    /\ ~probe.done
    /\ Reversed(reverse_location(env, probe.arg.answer.json, probe.arg.lat,
                                 probe.arg.lon))
    /\ UNCHANGED <<now, env, fwd, rev, calls, succ, last>>

SpecReverse == InitWith(ReverseProbes) /\ [][ApplyReverse]_vars

\* what _get_geolocation builds from a match without a coordinate and the
\* answer to its details request (util.py 58-90), for each shape of both
DetailsMatches ==
    {[MatchNoCoord EXCEPT !.type = ty, !.class = cl] :
        ty \in {None, "city"}, cl \in {"place", "country"}}

DetailsTags ==
    {[NoTags EXCEPT !.country = co, !.state = "Norte"] :
        co \in {None, "", "br"}}

DetailsAnswers ==
    {[Details(lp, ca, ln, cc, ht, tg) EXCEPT !.json.extratags.alpha2 = a2] :
        lp \in {None, "", "state"}, ca \in {None, "country", "boundary"},
        ln \in {None, "Oporto"}, cc \in {None, "", "pt"}, ht \in {TRUE},
        tg \in DetailsTags, a2 \in {None, "de"}}
    \cup
    {[Details(lp, ca, ln, cc, FALSE, NoTags)
         EXCEPT !.json.extratags.alpha2 = a2] :
        lp \in {None, "", "state"}, ca \in {None, "country", "boundary"},
        ln \in {None, "Oporto"}, cc \in {None, "", "pt"},
        a2 \in {None, "de"}}

DetailsProbes ==
    {[fn |-> "_get_geolocation", done |-> FALSE,
      arg |-> [location |-> "lisboa", data |-> m, answer |-> d],
      raises |-> None, out |-> NoLocation] :
        m \in DetailsMatches, d \in DetailsAnswers}

Detailed(loc) ==
    probe' = [probe EXCEPT !.done = TRUE, !.raises = loc.raises,
                           !.out = loc.location]

ApplyDetails ==
    /\ probe.fn = "_get_geolocation"
    /\ ~probe.done
    /\ Detailed(details_location(env, probe.arg.data, probe.arg.answer.json))
    /\ UNCHANGED <<now, env, fwd, rev, calls, succ, last>>

SpecDetails == InitWith(DetailsProbes) /\ [][ApplyDetails]_vars

(***************************************************************************)
(* Properties of the helpers.                                              *)
(***************************************************************************)
\* The first non-empty value of a list, "" when there is none.
FirstNonEmpty(values) ==
    LET full == {i \in DOMAIN values : values[i] # None /\ values[i] # ""}
    IN IF full = {} THEN ""
       ELSE values[CHOOSE i \in full : \A j \in full : i <= j]

Periods == {"early morning", "morning", "afternoon", "evening", "overnight"}

\* C6: get_time_period returns exactly one of the five periods, decided by
\* the hour alone: early morning iff 1 <= h < 5, morning iff 5 <= h < 12,
\* afternoon iff 12 <= h < 17, evening iff 17 <= h < 20, overnight iff h = 0
\* or 20 <= h <= 23.
C6_TimePeriod ==
    (probe.fn = "get_time_period" /\ probe.done) =>
        LET h == probe.arg.hour IN
        /\ probe.out \in Periods
        /\ probe.out = "early morning" <=> (1 <= h /\ h < 5)
        /\ probe.out = "morning" <=> (5 <= h /\ h < 12)
        /\ probe.out = "afternoon" <=> (12 <= h /\ h < 17)
        /\ probe.out = "evening" <=> (17 <= h /\ h < 20)
        /\ probe.out = "overnight" <=> (h = 0 \/ (20 <= h /\ h <= 23))
        /\ \A d \in Datetimes :
               d.hour = h => get_time_period(d) = probe.out

C6_Witness ==
    /\ probe.fn = "get_time_period"
    /\ probe.done
    /\ probe.arg.hour = 5
    /\ probe.arg.minute = 59
    /\ probe.out = "morning"

\* C7 as stated: on the details path the country code is the uppercased
\* first non-empty of the address tags' country, the details country_code
\* and the ISO3166-1:alpha2 extra tag, in this order.
UpperCased(code) ==
    [x \in {"", "pt", "br", "de"} |->
        CASE x = "pt" -> "PT" [] x = "br" -> "BR" [] x = "de" -> "DE"
          [] OTHER -> ""][code]

DetailsDone ==
    probe.fn = "_get_geolocation" /\ probe.done /\ probe.raises = None

C7_TagsCountryFirst ==
    DetailsDone =>
        LET d == probe.arg.answer.json
            tags == IF d.has_addresstags THEN d.addresstags ELSE NoTags
        IN probe.out.city.state.country.code =
             UpperCased(FirstNonEmpty(<<tags.country, d.country_code,
                                        d.extratags.alpha2>>))

\* C7 amended: on the details path the country code is the uppercased first
\* non-empty of the details country_code, the address tags' country and the
\* ISO3166-1:alpha2 extra tag, in this order; when the details country_code
\* and the address tags' country are both non-empty and differ, the details
\* country_code is the one used.
C7_DetailsCountryCodeFirst ==
    DetailsDone =>
        LET d == probe.arg.answer.json
            tags == IF d.has_addresstags THEN d.addresstags ELSE NoTags
        IN probe.out.city.state.country.code =
             UpperCased(FirstNonEmpty(<<d.country_code, tags.country,
                                        d.extratags.alpha2>>))

C7_Witness ==
    /\ DetailsDone
    /\ probe.arg.answer.json.has_addresstags
    /\ probe.arg.answer.json.country_code = "pt"
    /\ probe.arg.answer.json.addresstags.country = "br"
    /\ probe.out.city.state.country.code = "PT"

\* C8: on the details path place_type is the first non-empty of the
\* linked_place extra tag, the details category, the match's type and the
\* match's class; the level (city, state, country) equal to it holds the
\* resolved name, the other levels do not: city.name and country.name are
\* empty there and state.name is the address tags' state.  A non-empty
\* linked_place decides the level whatever the category.
C8_NameOnPlaceTypeLevel ==
    DetailsDone =>
        LET d == probe.arg.answer.json
            m == probe.arg.data
            tags == IF d.has_addresstags THEN d.addresstags ELSE NoTags
            place_type == FirstNonEmpty(<<d.extratags.linked_place,
                                          d.category, m.type, m.class>>)
            name == FirstNonEmpty(<<d.localname, d.names.name,
                                    d.names.official_name, m.display_name>>)
            city == probe.out.city
        IN /\ city.name = (IF place_type = "city" THEN name ELSE "")
           /\ city.state.name =
                (IF place_type = "state" THEN name ELSE tags.state)
           /\ city.state.country.name =
                (IF place_type = "country" THEN name ELSE "")
           /\ d.extratags.linked_place \notin {None, ""} =>
                /\ city.name = "" <=> d.extratags.linked_place # "city"
                /\ city.state.name = name
                       <=> d.extratags.linked_place = "state"
                /\ city.state.country.name = ""
                       <=> d.extratags.linked_place # "country"
           /\ place_type \in {"city", "state", "country"} =>
                Cardinality({l \in {"city", "state", "country"} :
                    name = (CASE l = "city" -> city.name
                              [] l = "state" -> city.state.name
                              [] OTHER -> city.state.country.name)}) = 1

C8_Witness ==
    /\ DetailsDone
    /\ probe.arg.answer.json.extratags.linked_place = "state"
    /\ probe.arg.answer.json.category = "country"
    /\ probe.out.city.state.name = "Oporto"
    /\ probe.out.city.state.country.name = ""
    /\ probe.out.city.name = ""

\* C9: on the reverse path city.name is the first non-empty of city, village,
\* town, hamlet and county, "" when there is none; state.name is the first
\* non-empty of state and county, else ""; the coordinate is the upstream's
\* lat and lon where it gives them, else the input's.
ReverseDone ==
    probe.fn = "get_reverse_geolocation" /\ probe.done /\ probe.raises = None

C9_ReverseFallbacks ==
    ReverseDone =>
        LET d == probe.arg.answer.json
            a == d.address
            coordinate == probe.out.coordinate
        IN /\ probe.out.city.name =
                FirstNonEmpty(<<a.city, a.village, a.town, a.hamlet,
                                a.county>>)
           /\ probe.out.city.state.name =
                FirstNonEmpty(<<a.state, a.county>>)
           /\ coordinate.latitude =
                (IF d.lat \in {None, ""} THEN probe.arg.lat ELSE d.lat)
           /\ coordinate.longitude =
                (IF d.lon \in {None, ""} THEN probe.arg.lon ELSE d.lon)

C9_Witness ==
    /\ ReverseDone
    /\ LET a == probe.arg.answer.json.address IN
        /\ a.city = None /\ a.village = None /\ a.town = "" /\ a.hamlet = None
        /\ a.county = "Concelho"
    /\ probe.arg.answer.json.lat = None
    /\ probe.out.city.name = "Concelho"
    /\ probe.out.coordinate.latitude = "38.7"

====
